---------------------------- MODULE Spec2Model ----------------------------
(***************************************************************************)
(* The DHL_Optimization class of src/Streamlit_code.py and of              *)
(* src/Optimization_gurobi.py, run as their main() runs it:                *)
(*   read_data -> normalize_shift_times -> initialize_model ->             *)
(*   add_constraints -> solve,                                             *)
(* or as src/test_optimization_gurobi.py runs the second class: the        *)
(* fixture assigns the frames, normalises, initialises, and a test calls   *)
(* initialize_model again or add_constraints.                              *)
(*                                                                         *)
(* Times are counted in ticks of 30 minutes, so that hour + minute/60 and  *)
(* seconds/3600 stay integers: one hour is Tick(1,0) = 2 ticks, one day is *)
(* Tick(24,0) = 48 ticks.                                                  *)
(*                                                                         *)
(* The mixed-integer program the class builds is kept as data: the         *)
(* variable `model` holds every constraint add_constraints has emitted,    *)
(* with the coefficients it read from the tables at that moment.  The      *)
(* external solver (model.optimize()) is a nondeterministic choice among   *)
(* the assignments that satisfy all of them.                               *)
(*                                                                         *)
(* Further specifications share the variables: two instances side by side  *)
(* (SpecTwo), normalize on every shift (SpecShifts), a driver that calls   *)
(* initialize_model again on its instance (SpecRebuild), and the two draft *)
(* scripts src/Model_Atfan.py and src/DHL_Optimization.py (SpecDraft).     *)
(***************************************************************************)
EXTENDS Integers, Sequences, FiniteSets, TLC

\* ------------------------------------------------------------------ bounds
\* The truck pool: range(NumTrucks) stands for range(300).
NumTrucks == 2
\* The day horizon: range(1, NumDays+1) stands for range(1, 7) of the Streamlit
\* class, range(NumDays) for range(4) of the Optimization_gurobi class.
NumDays == 2
\* The departure time T[l] (continuous, lb=0) is drawn from 0..MaxT ticks
\* and the release times of the run's consignments (DepartureTimes).  The
\* shift windows of DestinationTables lie inside 0..MaxT, and every window
\* constraint is periodic in T with period one day, so a larger T adds no
\* feasible pattern.
MaxT == 4

\* ------------------------------------------------------- program constants
\* "<= 2 * self.Z[l]"
Capacity == 2
\* "M=4"
BigM == 4
\* "unique()[:5]"
SliceLen == 5

Trucks == 0 .. (NumTrucks - 1)

Tick(hour, minute) == 2 * hour + (minute \div 30)
Day == Tick(24, 0)

\* range(1, 7) (Streamlit) and range(4) (Optimization_gurobi), scaled to NumDays
DaysOf(v) == IF v = "Streamlit" THEN 1 .. NumDays ELSE 0 .. (NumDays - 1)

\* --------------------------------------------------------------- helpers
RECURSIVE SumOver(_, _)
\* sum of f[x] for x in S (quicksum)
SumOver(f, S) ==
  IF S = {} THEN 0
  ELSE LET x == CHOOSE y \in S : TRUE IN f[x] + SumOver(f, S \ {x})

RECURSIVE Concat(_)
\* the concatenation of a sequence of sequences (a nested list comprehension)
Concat(ss) == IF ss = <<>> THEN <<>> ELSE Head(ss) \o Concat(Tail(ss))

Range(s) == { s[n] : n \in 1 .. Len(s) }

RECURSIVE Unique(_)
\* pandas Series.unique(): the values in order of first appearance
Unique(s) ==
  IF s = <<>> THEN <<>>
  ELSE LET r == Unique(SubSeq(s, 1, Len(s) - 1))
       IN IF s[Len(s)] \in Range(r) THEN r ELSE Append(r, s[Len(s)])

\* s[:n]
Take(s, n) == SubSeq(s, 1, IF Len(s) < n THEN Len(s) ELSE n)

\* ---------------------------------------------------------- input tables
\* The facilities of the data set: two parcel centres that send ("A", "B")
\* and one that receives ("D").

\* The consignment table (source_df), one row per id, in row order 1, 2, 3.
\* Consignment 1 is released at 01:30, the others at 01:00; consignment 3
\* varies in its route and quantity.
ConsignmentIds == {1, 2, 3}

SourceTables ==
  { [k \in ConsignmentIds |->
       IF k = 1 THEN [origin |-> "A", dest |-> "D",
                      release |-> [hour |-> 1, minute |-> 30], qty |-> 1]
       ELSE IF k = 2 THEN [origin |-> "A", dest |-> "D",
                      release |-> [hour |-> 1, minute |-> 0], qty |-> 1]
       ELSE [origin |-> v[1], dest |-> v[2],
             release |-> [hour |-> 1, minute |-> 0], qty |-> v[3]]]
    : v \in { <<"A", "D", 1>>, <<"A", "D", 2>>, <<"B", "D", 1>>,
              <<"B", "D", 2>>, <<"B", "A", 1>> } }

\* The destination table (destination_df): the shift of D as times of day and
\* its sorting capacity per hour.
DestinationTables ==
  { [j \in {"D"} |-> [start |-> [hour |-> 1, minute |-> 0],
                      end   |-> [hour |-> 2, minute |-> 0],
                      rate  |-> r]] : r \in {2, 8} }

\* The route table (trucking_df), in row order; 'OSRM_time [sek]' in seconds.
\* The second table has no row for the pair (A, D).
TruckingTables ==
  { << [origin |-> "A", dest |-> "D", sec |-> 1800],
       [origin |-> "B", dest |-> "D", sec |-> 3600] >>,
    << [origin |-> "B", dest |-> "D", sec |-> 3600],
       [origin |-> "A", dest |-> "B", sec |-> 1800] >> }

\* A data set is the three tables a run reads: << source, destination,
\* trucking >>.

\* Three consignments released at 06:00, 07:00 and 08:00 from two parcel
\* centres, a shift from 07:00 to 19:00 with ample sorting capacity, one hour
\* of travel on both routes.
ThreeConsignments ==
  << [k \in ConsignmentIds |->
        [origin |-> IF k = 3 THEN "B" ELSE "A", dest |-> "D",
         release |-> [hour |-> 5 + k, minute |-> 0], qty |-> 1]],
     [j \in {"D"} |-> [start |-> [hour |-> 7, minute |-> 0],
                       end   |-> [hour |-> 19, minute |-> 0],
                       rate  |-> 8]],
     << [origin |-> "A", dest |-> "D", sec |-> 3600],
        [origin |-> "B", dest |-> "D", sec |-> 3600] >> >>

\* The destination's 'Sorting capacity' is 0; consignment 3 is the only one
\* from B and its quantity is 0 or 1.
ZeroSortingCapacity ==
  { << [k \in ConsignmentIds |->
          [origin |-> IF k = 3 THEN "B" ELSE "A", dest |-> "D",
           release |-> [hour |-> 1, minute |-> 0],
           qty |-> IF k = 3 THEN q ELSE 1]],
       [j \in {"D"} |-> [start |-> [hour |-> 1, minute |-> 0],
                         end   |-> [hour |-> 2, minute |-> 0],
                         rate  |-> 0]],
       << [origin |-> "A", dest |-> "D", sec |-> 1800],
          [origin |-> "B", dest |-> "D", sec |-> 3600] >> >> : q \in {0, 1} }

\* The route table names B as a destination too, and the destination table
\* has no row for B; every consignment goes to D.
UnlistedDestination ==
  << [k \in ConsignmentIds |->
        [origin |-> IF k = 3 THEN "B" ELSE "A", dest |-> "D",
         release |-> [hour |-> 1, minute |-> 0], qty |-> 1]],
     [j \in {"D"} |-> [start |-> [hour |-> 1, minute |-> 0],
                       end   |-> [hour |-> 2, minute |-> 0],
                       rate  |-> 8]],
     << [origin |-> "A", dest |-> "D", sec |-> 1800],
        [origin |-> "B", dest |-> "D", sec |-> 3600],
        [origin |-> "A", dest |-> "B", sec |-> 1800] >> >>

DataSets ==
  (SourceTables \X DestinationTables \X TruckingTables)
    \cup {ThreeConsignments, UnlistedDestination} \cup ZeroSortingCapacity

\* The files two sessions of the dashboard both read: the default paths of
\* main().  Consignment 3 of quantity 2 from B, sorting capacity 2 per hour.
DefaultFiles ==
  { ds \in SourceTables \X DestinationTables \X TruckingTables :
      /\ ds[1][3].origin = "B" /\ ds[1][3].dest = "D" /\ ds[1][3].qty = 2
      /\ ds[2]["D"].rate = 2
      /\ Len(ds[3]) = 2 /\ ds[3][1].origin = "A" }

\* What the user selects in the dashboard (st.multiselect, st.selectbox).
Selections == { <<"A">>, <<"B">>, <<"A", "B">> }
SelectableDestinations == {"D"}

VARIABLES
  variant,              \* "Streamlit" | "Gurobi": which file's class runs,
                        \* or "Model_Atfan" | "DHL_Optimization": which of
                        \* the two draft scripts
  caller,               \* "main" | "test": main() or the pytest module
                        \* ("script" for a draft script, which has neither)
  active,               \* which of the two instances the fields below show
  other,                \* the fields of the second instance
  pc,                   \* the position of the caller
  raised,               \* the exception that ended the run and the method
                        \* it left, or NoException
  columns,              \* the column names of the data files: "en" | "de"
  source_df, destination_df, trucking_df,
  source_list, destination_list, routes_list,
  consignment_list, valid_combinations,
  X,                    \* the keys of self.X, in insertion order
  Z, T, ArrivalDay, ArrivalDayBinary,   \* the keys of these dicts
  model,                \* self.model: the constraints emitted so far
  status,               \* self.model.status after optimize()
  sol,                  \* the values (.X) of the variables after optimize()
  plan,                 \* df_out / the rows written to output.csv
  printed,              \* what solve has printed, in order
  Y                     \* the keys (k, l) of the draft scripts' Y

vars == << variant, caller, active, other, pc, raised, columns, source_df,
           destination_df, trucking_df, source_list, destination_list,
           routes_list, consignment_list, valid_combinations, X, Z, T,
           ArrivalDay, ArrivalDayBinary, model, status, sol, plan, printed,
           Y >>

\* what no method of the class touches
fixed == << variant, caller, active, other, Y >>

data == << source_df, destination_df, trucking_df, columns >>
lists == << source_list, destination_list, routes_list, consignment_list,
            valid_combinations >>
dicts == << X, Z, T, ArrivalDay, ArrivalDayBinary >>
outcome == << status, sol, plan, printed >>

\* Model("DHL_Optimization"): no constraint yet
EmptyModel ==
  [ capacity |-> {}, release |-> {}, window |-> {}, assign |-> {},
    bigM |-> {}, sorting |-> {}, dayAssign |-> {} ]

\* no incumbent: reading a variable's .X raises AttributeError
NoSolution ==
  [ has |-> FALSE, ArrivalDayBinary |-> <<>>, ArrivalDay |-> <<>>,
    Z |-> <<>>, X |-> <<>>, T |-> <<>> ]
NoPlan == [ set |-> FALSE, rows |-> <<>> ]
NoException == [ exc |-> "none", method |-> "none" ]

\* __init__: every attribute is bound to a new object of the instance.  None
\* is written <<>>.  The record also holds where the instance's caller is
\* and what its solve has handed back.
NewInstance ==
  [ pc |-> "constructed", raised |-> NoException, columns |-> "none",
    source_df |-> <<>>, destination_df |-> <<>>, trucking_df |-> <<>>,
    source_list |-> <<>>, destination_list |-> <<>>, routes_list |-> <<>>,
    consignment_list |-> <<>>, valid_combinations |-> <<>>,
    X |-> <<>>, Z |-> {}, T |-> {}, ArrivalDay |-> {},
    ArrivalDayBinary |-> {}, model |-> EmptyModel, status |-> "LOADED",
    sol |-> NoSolution, plan |-> NoPlan, printed |-> <<>> ]

\* The state after construction.  The test module imports the class of
\* Optimization_gurobi only.
Init ==
  /\ variant \in {"Streamlit", "Gurobi"}
  /\ caller \in (IF variant = "Gurobi" THEN {"main", "test"} ELSE {"main"})
  /\ active = 1
  /\ other = NewInstance
  /\ Y = {}
  /\ printed = <<>>
  /\ pc = "constructed"
  /\ raised = NoException
  /\ columns = "none"
  /\ source_df = <<>> /\ destination_df = <<>> /\ trucking_df = <<>>
  /\ source_list = <<>> /\ destination_list = <<>> /\ routes_list = <<>>
  /\ consignment_list = <<>> /\ valid_combinations = <<>>
  /\ X = <<>> /\ Z = {} /\ T = {} /\ ArrivalDay = {} /\ ArrivalDayBinary = {}
  /\ model = EmptyModel
  /\ status = "LOADED"
  /\ sol = NoSolution
  /\ plan = NoPlan

\* mutant of Raise: the caller catches the exception and goes on to solve
Raise_Swallowed(e, m) ==
  pc' = "constrained" /\ raised' = [ exc |-> e, method |-> m ]

\* An exception leaves the method and, uncaught in main(), ends the run.
Raise(e, m) == pc' = "failed" /\ raised' = [ exc |-> e, method |-> m ]

\* the column names the class of variant v reads
ColumnsOf(v) == IF v = "Streamlit" THEN "en" ELSE "de"

\* read_data on the files `files`: the three sheets are read into the data
\* frames.  The sheets carry the English column names the Streamlit class
\* reads or the German ones the Optimization_gurobi class reads; the latter
\* converts source_df['geplantes_beladeende'] at once.
ReadData(files) ==
  /\ pc = "constructed" /\ caller = "main"
  /\ \E ds \in files, c \in {"en", "de"} :
       /\ source_df' = ds[1] /\ destination_df' = ds[2] /\ trucking_df' = ds[3]
       /\ columns' = c
       /\ IF variant = "Gurobi" /\ c = "en"
          THEN Raise("KeyError", "read_data")
          ELSE pc' = "read" /\ raised' = raised
  /\ UNCHANGED << fixed, lists, dicts, model, outcome >>

read_data == ReadData(DataSets)

\* The fixture of the test module: "optimizer.source_df = ..." and the two
\* assignments after it.  Nothing is read or converted.
fixture ==
  /\ pc = "constructed" /\ caller = "test"
  /\ \E ds \in DataSets, c \in {"en", "de"} :
       /\ source_df' = ds[1] /\ destination_df' = ds[2] /\ trucking_df' = ds[3]
       /\ columns' = c
  /\ pc' = "read"
  /\ UNCHANGED << fixed, raised, lists, dicts, model, outcome >>

\* mutant of normalize: "<=" for "<"
normalize_WrapOnEqual(row) ==
  LET start_hour == Tick(row.start.hour, row.start.minute)
      end_hour == Tick(row.end.hour, row.end.minute)
  IN [ row EXCEPT !.start = start_hour,
                  !.end = IF end_hour <= start_hour THEN end_hour + Day
                          ELSE end_hour ]

\* normalize(row): hour + minute/60 of both times, the end moved to the next
\* day when it is earlier than the start
normalize(row) ==
  LET start_hour == Tick(row.start.hour, row.start.minute)
      end_hour == Tick(row.end.hour, row.end.minute)
  IN [ row EXCEPT !.start = start_hour,
                  !.end = IF end_hour < start_hour THEN end_hour + Day
                          ELSE end_hour ]

\* normalize_shift_times: destination_df.apply(normalize, axis=1); a frame
\* with the other class's column names has no row['Start of shift'] /
\* row['Schichtbeginn']
normalize_shift_times ==
  /\ pc = "read"
  /\ IF columns # ColumnsOf(variant)
     THEN /\ Raise("KeyError", "normalize_shift_times")
          /\ UNCHANGED destination_df
     ELSE /\ destination_df' =
               [ j \in DOMAIN destination_df |-> normalize(destination_df[j]) ]
          /\ pc' = "normalized" /\ raised' = raised
  /\ UNCHANGED << fixed, columns, source_df, trucking_df, lists, dicts,
                  model, outcome >>

\* ------------------------------------------------------- initialize_model
\* source_df[(origin == i) & (destination == j)]['id'].values, in row order
IdsOn(i, j) ==
  LET F[n \in 0 .. Len(source_df)] ==
        IF n = 0 THEN <<>>
        ELSE IF source_df[n].origin = i /\ source_df[n].dest = j
             THEN Append(F[n - 1], n) ELSE F[n - 1]
  IN F[Len(source_df)]

\* [(i, j) for i in source_list for j in destination_list if i != j]
RoutesOf(sl, dl) ==
  Concat([ a \in 1 .. Len(sl) |->
    Concat([ b \in 1 .. Len(dl) |->
      IF sl[a] # dl[b] THEN << <<sl[a], dl[b]>> >> ELSE <<>> ]) ])

\* mutant of ConsignmentsOf: only the first route is looked at
ConsignmentsOf_FirstRoute(rl) ==
  IF rl = <<>> THEN <<>> ELSE IdsOn(rl[1][1], rl[1][2])

\* [x for (i, j) in routes_list for x in <ids on (i, j)>]
ConsignmentsOf(rl) ==
  Concat([ r \in 1 .. Len(rl) |-> IdsOn(rl[r][1], rl[r][2]) ])

\* mutant of ValidCombinationsOf: the "if k in ..." filter is missing
ValidCombinationsOf_Unfiltered(rl, cl) ==
  Concat([ r \in 1 .. Len(rl) |->
    [ c \in 1 .. Len(cl) |-> <<rl[r][1], rl[r][2], cl[c]>> ] ])

\* [(i, j, k) for (i, j) in routes_list for k in consignment_list
\*            if k in <ids on (i, j)>]
ValidCombinationsOf(rl, cl) ==
  Concat([ r \in 1 .. Len(rl) |->
    Concat([ c \in 1 .. Len(cl) |->
      IF cl[c] \in Range(IdsOn(rl[r][1], rl[r][2]))
      THEN << <<rl[r][1], rl[r][2], cl[c]>> >> ELSE <<>> ]) ])

\* [(i, j, k, l) for (i, j, k) in valid_combinations for l in self.trucks]
XKeysOf(vc) ==
  Concat([ c \in 1 .. Len(vc) |->
    [ n \in 1 .. NumTrucks |-> <<vc[c][1], vc[c][2], vc[c][3], n - 1>> ] ])

\* The lists and the variables of initialize_model, for the source and
\* destination lists sl and dl.  A dict keeps the keys it has and appends
\* the new ones.  (self.ArrivalTime is left out: add_constraints overwrites
\* its entries with expressions and nothing reads the variables.)
BuildVariables(sl, dl) ==
  LET rl == RoutesOf(sl, dl)
      cl == ConsignmentsOf(rl)
      vc == ValidCombinationsOf(rl, cl)
  IN /\ source_list' = sl
     /\ destination_list' = dl
     /\ routes_list' = rl
     /\ consignment_list' = cl
     /\ valid_combinations' = vc
     /\ X' = Unique(X \o XKeysOf(vc))
     /\ Z' = Z \cup Trucks
     /\ T' = T \cup Trucks
     /\ ArrivalDay' = IF variant = "Gurobi" THEN ArrivalDay \cup Trucks
                      ELSE ArrivalDay
     /\ ArrivalDayBinary' = ArrivalDayBinary \cup (Trucks \X DaysOf(variant))

\* Streamlit: initialize_model(selected_sources, selected_destination)
initialize_model_Streamlit ==
  /\ pc = "normalized" /\ variant = "Streamlit"
  /\ \E selected_sources \in Selections,
        selected_destination \in SelectableDestinations :
       BuildVariables(selected_sources, <<selected_destination>>)
  /\ pc' = "initialized"
  /\ UNCHANGED << fixed, raised, data, model, outcome >>

\* Optimization_gurobi: initialize_model(), the first five origins and
\* destinations of the route table.  main() and the fixture call it once;
\* test_initialize_model calls it again on the fixture's instance.
initialize_model_Gurobi ==
  /\ variant = "Gurobi"
  /\ \/ pc = "normalized"
     \/ pc = "initialized" /\ caller = "test"
  /\ BuildVariables(
       Take(Unique([ n \in 1 .. Len(trucking_df) |-> trucking_df[n].origin ]),
            SliceLen),
       Take(Unique([ n \in 1 .. Len(trucking_df) |-> trucking_df[n].dest ]),
            SliceLen))
  /\ pc' = IF pc = "normalized" THEN "initialized" ELSE "reinitialized"
  /\ UNCHANGED << fixed, raised, data, model, outcome >>

initialize_model == initialize_model_Streamlit \/ initialize_model_Gurobi

\* -------------------------------------------------------- add_constraints
\* df[df[...] == ...][column].values[0] raises IndexError when no row matches
HasDestination(j) == j \in DOMAIN destination_df
HasRoute(i, j) ==
  \E n \in 1 .. Len(trucking_df) :
    trucking_df[n].origin = i /\ trucking_df[n].dest = j

\* trucking_df[(Origin_ID == i) & (Destination_ID == j)]['OSRM_time [sek]']
\*   .values[0] / 3600, in ticks
travel_time(i, j) ==
  LET n == CHOOSE n \in 1 .. Len(trucking_df) :
             /\ trucking_df[n].origin = i /\ trucking_df[n].dest = j
             /\ \A m \in 1 .. (n - 1) :
                  ~(trucking_df[m].origin = i /\ trucking_df[m].dest = j)
  IN (trucking_df[n].sec * Tick(1, 0)) \div 3600

\* source_df[source_df['id'] == k]['planned_end_of_loading'].dt.hour.values[0]
release_time(k) == source_df[k].release.hour

\* 1. quicksum(X[i,j,k,l] for (i,j,k) in valid_combinations) <= 2 * Z[l]
CapacityConstrs ==
  { [ l |-> l, combos |-> Range(valid_combinations) ] : l \in Trucks }

\* 2. T[l] >= release_time * X[i,j,k,l]
ReleaseConstrs ==
  { [ key |-> c, l |-> l, release_time |-> release_time(c[3]) ]
    : c \in Range(valid_combinations), l \in Trucks }

\* 3. the two window constraints on ArrivalTime[l] of one combination and
\* truck, with a fresh integer multiplier (lb = 0)
WindowConstrsOf(c) ==
  { [ key |-> c, l |-> l, form |-> variant,
      start_shift |-> destination_df[c[2]].start,
      end_shift |-> destination_df[c[2]].end,
      travel_time |-> travel_time(c[1], c[2]) ] : l \in Trucks }

\* the first combination of constraint 3 whose look-ups fail, or
\* Len(valid_combinations) + 1
FirstFailingCombination ==
  LET vc == valid_combinations
      bad == { n \in 1 .. Len(vc) :
                 ~HasDestination(vc[n][2]) \/ ~HasRoute(vc[n][1], vc[n][2]) }
  IN IF bad = {} THEN Len(vc) + 1
     ELSE CHOOSE n \in bad : \A m \in bad : n <= m

\* the window constraints of the combinations before the n-th
WindowConstrsBefore(n) ==
  UNION { WindowConstrsOf(valid_combinations[m]) : m \in 1 .. (n - 1) }

\* 4. quicksum(X[i,j,k,l] * Z[l] for l in trucks) == 1 (Streamlit),
\*    quicksum(X[i,j,k,l] for l in trucks) == 1 (Optimization_gurobi)
AssignConstrs ==
  { [ key |-> c, timesZ |-> (variant = "Streamlit") ]
    : c \in Range(valid_combinations) }

\* the (i, j, k) the sorting sum of destination j runs over, each with its
\* quantity
SortingTerms(j) ==
  { [ key |-> <<i, j, k>>, qty |-> source_df[k].qty ]
    : <<i, k>> \in { p \in Range(source_list) \X Range(consignment_list) :
                       /\ j # p[1]
                       /\ <<p[1], j, p[2]>> \in Range(valid_combinations) } }

\* sorting_capacity_per_day as the fraction num/den:
\*   working_hours / 2 * capacity  (Streamlit)
\*   working_hours * capacity      (Optimization_gurobi)
sorting_capacity_per_day(j) ==
  LET working_ticks == destination_df[j].end - destination_df[j].start
  IN [ num |-> working_ticks * destination_df[j].rate,
       den |-> IF variant = "Streamlit" THEN Tick(1, 0) * 2 ELSE Tick(1, 0) ]

\* mutant of SortingDays: the range ends one day early
SortingDays_Short == DaysOf(variant) \ {NumDays}

\* "for d in range(1, 7)" / "for d in range(4)": the days the sorting
\* constraints of one destination are emitted for
SortingDays == DaysOf(variant)

\* 5.1 / 6. one sorting-capacity constraint per destination and day.  In
\* Optimization_gurobi the day indicator stands outside the sum, indexed by
\* the l the preceding loop over self.trucks left behind (its last truck).
SortingConstrsOf(j) ==
  { [ j |-> j, d |-> d, form |-> variant, terms |-> SortingTerms(j),
      cap |-> sorting_capacity_per_day(j), last_l |-> NumTrucks - 1 ]
    : d \in SortingDays }

\* 5.2 quicksum(ArrivalDayBinary[l,d] * Z[l] for d in range(1,7)) == 1
DayAssignConstrs == { [ l |-> l, days |-> DaysOf(variant) ] : l \in Trucks }

\* the two big-M constraints of Optimization_gurobi per truck and day
BigMConstrs == { [ l |-> l, d |-> d, M |-> BigM ]
                 : l \in Trucks, d \in DaysOf(variant) }

add_constraints ==
  /\ pc = "initialized"
  /\ LET bad == FirstFailingCombination
         first3 == [ model EXCEPT
                       !.capacity = @ \cup CapacityConstrs,
                       !.release = @ \cup ReleaseConstrs,
                       !.window = @ \cup WindowConstrsBefore(bad) ]
         dl == destination_list
         badj == { n \in 1 .. Len(dl) : ~HasDestination(dl[n]) }
         firstj == IF badj = {} THEN Len(dl) + 1
                   ELSE CHOOSE n \in badj : \A m \in badj : n <= m
         sorting == UNION { SortingConstrsOf(dl[n]) : n \in 1 .. (firstj - 1) }
     IN IF bad <= Len(valid_combinations)
        THEN /\ model' = first3
             /\ Raise("IndexError", "add_constraints")
        ELSE IF firstj <= Len(dl)
        THEN /\ model' = [ first3 EXCEPT
                             !.assign = @ \cup AssignConstrs,
                             !.bigM = IF variant = "Gurobi"
                                      THEN @ \cup BigMConstrs ELSE @,
                             !.sorting = @ \cup sorting ]
             /\ Raise("IndexError", "add_constraints")
        ELSE /\ model' = [ first3 EXCEPT
                             !.assign = @ \cup AssignConstrs,
                             !.bigM = IF variant = "Gurobi"
                                      THEN @ \cup BigMConstrs ELSE @,
                             !.sorting = @ \cup sorting,
                             !.dayAssign = IF variant = "Streamlit"
                                           THEN @ \cup DayAssignConstrs ELSE @ ]
             /\ pc' = "constrained" /\ raised' = raised
  /\ UNCHANGED << fixed, data, lists, dicts, outcome >>

\* ------------------------------------------------- the constraints' meaning
\* An assignment s gives every variable a value: s.X[i,j,k,l], s.Z[l],
\* s.ArrivalDayBinary[l,d] in {0,1}, s.T[l] >= 0, s.ArrivalDay[l] in 0..ub.
XKey(c, l) == <<c[1], c[2], c[3], l>>

\* mutant of SatCapacity: the load is not tied to Z[l]
SatCapacity_Unlinked(c, s) ==
  SumOver([ k \in c.combos |-> s.X[XKey(k, c.l)] ], c.combos) <= Capacity

SatCapacity(c, s) ==
  SumOver([ k \in c.combos |-> s.X[XKey(k, c.l)] ], c.combos)
    <= Capacity * s.Z[c.l]

\* mutant of SatRelease: the gate opens an hour early
SatRelease_HourEarly(c, s) ==
  s.T[c.l] >= (Tick(c.release_time, 0) - Tick(1, 0)) * s.X[XKey(c.key, c.l)]

SatRelease(c, s) ==
  s.T[c.l] >= Tick(c.release_time, 0) * s.X[XKey(c.key, c.l)]

\* 24 * quicksum((d-1) * ArrivalDayBinary[l,d]) (Streamlit) or
\* 24 * ArrivalDay[l] (Optimization_gurobi)
DayOffset(c, s) ==
  IF c.form = "Streamlit"
  THEN Day * SumOver([ d \in DaysOf(c.form) |->
                         (d - 1) * s.ArrivalDayBinary[<<c.l, d>>] ],
                     DaysOf(c.form))
  ELSE Day * s.ArrivalDay[c.l]

\* start_shift <= ArrivalTime[l] <= end_shift for some value m >= 0 of the
\* constraint's own multiplier variable
SatWindow(c, s) ==
  LET v == s.T[c.l] + c.travel_time * s.X[XKey(c.key, c.l)] + DayOffset(c, s)
  IN \E m \in 0 .. (v \div Day) :
       /\ v - Day * m >= c.start_shift
       /\ v - Day * m <= c.end_shift

\* mutant of SatAssign: "<= 1" for "== 1"
SatAssign_AtMostOne(c, s) ==
  SumOver([ l \in Trucks |->
              IF c.timesZ THEN s.X[XKey(c.key, l)] * s.Z[l]
              ELSE s.X[XKey(c.key, l)] ], Trucks) <= 1

SatAssign(c, s) ==
  SumOver([ l \in Trucks |->
              IF c.timesZ THEN s.X[XKey(c.key, l)] * s.Z[l]
              ELSE s.X[XKey(c.key, l)] ], Trucks) = 1

SatSorting(c, s) ==
  LET pairs == c.terms \X Trucks
      load(weighted) ==
        SumOver([ p \in pairs |->
                    s.X[XKey(p[1].key, p[2])] * p[1].qty *
                    (IF weighted THEN s.ArrivalDayBinary[<<p[2], c.d>>] ELSE 1) ],
                pairs)
  IN IF c.form = "Streamlit"
     THEN c.cap.den * load(TRUE) <= c.cap.num
     ELSE c.cap.den * load(FALSE) * s.ArrivalDayBinary[<<c.last_l, c.d>>]
            <= c.cap.num

SatDayAssign(c, s) ==
  SumOver([ d \in c.days |-> s.ArrivalDayBinary[<<c.l, d>>] * s.Z[c.l] ],
          c.days) = 1

SatBigM(c, s) ==
  /\ s.ArrivalDay[c.l] - c.d <= c.M * (1 - s.ArrivalDayBinary[<<c.l, c.d>>])
  /\ s.ArrivalDay[c.l] - c.d >= 1 - c.M * s.ArrivalDayBinary[<<c.l, c.d>>]

\* The values T[l] is drawn from: the grid 0..MaxT and the right-hand sides
\* of the release constraints.
DepartureTimes ==
  (0 .. MaxT) \cup { Tick(c.release_time, 0) : c \in model.release }

\* The feasible assignments, found variable group by variable group: a
\* constraint is tested as soon as the variables it mentions have values.
\* ArrivalDay has ub = 3 = the last day of range(4).
FeasibleSolutions ==
  LET days == { d \in [ ArrivalDayBinary : [ArrivalDayBinary -> {0, 1}],
                        ArrivalDay : [ArrivalDay -> 0 .. (NumDays - 1)] ] :
                  \A c \in model.bigM : SatBigM(c, d) }
      used == UNION { { [ ArrivalDayBinary |-> d.ArrivalDayBinary,
                          ArrivalDay |-> d.ArrivalDay, Z |-> z ]
                        : z \in { z \in [Z -> {0, 1}] :
                                    \A c \in model.dayAssign :
                                      SatDayAssign(c,
                                        [ ArrivalDayBinary |-> d.ArrivalDayBinary,
                                          Z |-> z ]) } }
                      : d \in days }
      loaded == UNION { { [ ArrivalDayBinary |-> u.ArrivalDayBinary,
                            ArrivalDay |-> u.ArrivalDay, Z |-> u.Z, X |-> x ]
                          : x \in { x \in [Range(X) -> {0, 1}] :
                                LET p == [ ArrivalDayBinary |-> u.ArrivalDayBinary,
                                           Z |-> u.Z, X |-> x ]
                                IN /\ \A c \in model.capacity : SatCapacity(c, p)
                                   /\ \A c \in model.assign : SatAssign(c, p)
                                   /\ \A c \in model.sorting : SatSorting(c, p) } }
                        : u \in used }
  IN UNION { { [ has |-> TRUE, ArrivalDayBinary |-> p.ArrivalDayBinary,
                 ArrivalDay |-> p.ArrivalDay, Z |-> p.Z, X |-> p.X, T |-> t ]
               : t \in { t \in [T -> DepartureTimes] :
                     LET q == [ ArrivalDayBinary |-> p.ArrivalDayBinary,
                                ArrivalDay |-> p.ArrivalDay, X |-> p.X, T |-> t ]
                     IN /\ \A c \in model.release : SatRelease(c, q)
                        /\ \A c \in model.window : SatWindow(c, q) } }
             : p \in loaded }

\* The objective of initialize_model, as a cost to minimise:
\*   Streamlit: minimise sum_l Z[l] * sum_d d * ArrivalDayBinary[l,d]
\*   Optimization_gurobi: maximise sum X - sum Z - sum ArrivalDay
Cost(s) ==
  IF variant = "Streamlit"
  THEN SumOver([ l \in Z |->
         s.Z[l] * SumOver([ d \in DaysOf(variant) |->
                              d * s.ArrivalDayBinary[<<l, d>>] ],
                          DaysOf(variant)) ], Z)
  ELSE SumOver(s.Z, Z) + SumOver(s.ArrivalDay, ArrivalDay)
       - SumOver(s.X, Range(X))

\* ------------------------------------------------------------------ solve
\* the statuses after which solve reads the solution
PlanStatuses == {"OPTIMAL", "TIME_LIMIT", "SUBOPTIMAL"}

\* model.optimize(): the status the solver ends with and the assignment it
\* holds.  OPTIMAL comes with an assignment of least cost, SUBOPTIMAL and
\* TIME_LIMIT with any feasible one, TIME_LIMIT also with none; a model with
\* no feasible assignment ends INFEASIBLE or INF_OR_UNBD.  (The objective is
\* bounded, so UNBOUNDED cannot occur.)
SolverOutcomes ==
  LET F == FeasibleSolutions
      costs == { Cost(s) : s \in F }
      best == CHOOSE v \in costs : \A w \in costs : v <= w
  IN    { <<"OPTIMAL", s>> : s \in { s \in F : Cost(s) = best } }
   \cup { <<"SUBOPTIMAL", s>> : s \in F }
   \cup { <<"TIME_LIMIT", s>> : s \in F \cup {NoSolution} }
   \cup (IF F = {} THEN { <<"INFEASIBLE", NoSolution>>,
                          <<"INF_OR_UNBD", NoSolution>> } ELSE {})

\* (self.Z[l].X == 1) and (self.X[i,j,k,l].X == 1)
Carried(s, key) == s.Z[key[4]] = 1 /\ s.X[key] = 1

\* the row solve appends for one key of self.X (Streamlit)
PlanRow(s, key) ==
  [ origin |-> key[1], destination |-> key[2], consignment |-> key[3],
    truck |-> key[4], departure |-> s.T[key[4]],
    arrival_day |-> SumOver([ d \in DaysOf(variant) |->
                                d * s.ArrivalDayBinary[<<key[4], d>>] ],
                            DaysOf(variant)),
    start_shift |-> destination_df[key[2]].start,
    end_shift |-> destination_df[key[2]].end,
    travel_time |-> travel_time(key[1], key[2]) ]

\* data: the rows of the carried keys, in the order of self.X.keys()
PlanRows(s) ==
  LET F[n \in 0 .. Len(X)] ==
        IF n = 0 THEN <<>>
        ELSE IF Carried(s, X[n]) THEN Append(F[n - 1], PlanRow(s, X[n]))
             ELSE F[n - 1]
  IN F[Len(X)]

\* What solve prints of its own for the status st when it reaches its end
\* (the solver's log, which the Streamlit class passes on as it comes, is not
\* the class's word).
SolveMessages(v, st) ==
  (IF v = "Streamlit" THEN <<"Solving the optimization problem...">> ELSE <<>>)
    \o (IF st \in PlanStatuses THEN <<>> ELSE <<"No optimal solution found.">>)
    \o (IF v = "Streamlit" THEN <<"Optimization completed">> ELSE <<>>)

\* Streamlit solve(): after a plan status the rows are collected into df_out
\* and shown, the shift and the travel time of every carried key of self.X
\* being looked up on the way; after any other status only the message is
\* printed and st.dataframe(df_out) reads a name that was never bound.
solve_Streamlit ==
  /\ pc = "constrained" /\ variant = "Streamlit"
  /\ \E o \in SolverOutcomes :
       /\ status' = o[1]
       /\ sol' = o[2]
       /\ IF o[1] \in PlanStatuses
          THEN IF ~o[2].has /\ Len(X) > 0
               THEN /\ Raise("AttributeError", "solve") /\ plan' = plan
                    /\ printed' = <<"Solving the optimization problem...">>
               ELSE IF o[2].has /\ \E n \in 1 .. Len(X) :
                                     /\ Carried(o[2], X[n])
                                     /\ ~(/\ HasDestination(X[n][2])
                                          /\ HasRoute(X[n][1], X[n][2]))
               THEN /\ Raise("IndexError", "solve") /\ plan' = plan
                    /\ printed' = <<"Solving the optimization problem...">>
               ELSE /\ plan' = [ set |-> TRUE,
                                 rows |-> IF o[2].has THEN PlanRows(o[2])
                                          ELSE <<>> ]
                    /\ printed' = SolveMessages(variant, o[1])
                    /\ pc' = "solved" /\ raised' = raised
          ELSE /\ Raise("UnboundLocalError", "solve") /\ plan' = plan
               /\ printed' = SolveMessages(variant, o[1])
  /\ UNCHANGED << fixed, data, lists, dicts, model >>

\* Optimization_gurobi solve(): the first carried key makes it read
\* destination_df['Destination_ID'], a column the German sheets do not have;
\* after any other status it prints the message and returns.
solve_Gurobi ==
  /\ pc = "constrained" /\ variant = "Gurobi" /\ caller = "main"
  /\ \E o \in SolverOutcomes :
       /\ status' = o[1]
       /\ sol' = o[2]
       /\ printed' = SolveMessages(variant, o[1])
       /\ IF o[1] \in PlanStatuses
          THEN IF ~o[2].has /\ Len(X) > 0
               THEN Raise("AttributeError", "solve") /\ plan' = plan
               ELSE IF o[2].has /\ \E n \in 1 .. Len(X) : Carried(o[2], X[n])
               THEN Raise("KeyError", "solve") /\ plan' = plan
               ELSE /\ plan' = [ set |-> TRUE, rows |-> <<>> ]
                    /\ pc' = "solved" /\ raised' = raised
          ELSE /\ plan' = plan
               /\ pc' = "solved" /\ raised' = raised
  /\ UNCHANGED << fixed, data, lists, dicts, model >>

solve == solve_Streamlit \/ solve_Gurobi

Next ==
  \/ read_data
  \/ fixture
  \/ normalize_shift_times
  \/ initialize_model
  \/ add_constraints
  \/ solve

Spec == Init /\ [][Next]_vars

\* ---------------------------------------------------------- two instances
\* mutant of InstanceAttributes: X is a dict of the class body, which every
\* instance fills in place
InstanceAttributes_ClassLevelX ==
  { "source_df", "destination_df", "trucking_df", "model", "source_list",
    "destination_list", "routes_list", "consignment_list",
    "valid_combinations", "Z", "T", "ArrivalDay", "ArrivalDayBinary" }

\* The attributes __init__ binds on self, each to an object of its own; the
\* class body binds no attribute.
InstanceAttributes ==
  { "source_df", "destination_df", "trucking_df", "model", "source_list",
    "destination_list", "routes_list", "consignment_list",
    "valid_combinations", "X", "Z", "T", "ArrivalDay", "ArrivalDayBinary" }

\* the value the attribute `name` shows once the second instance is the one
\* at hand: its own object, or the one object both instances share.  The
\* solver's status and the variables' values belong to the model object.
Attribute(name, own, second) ==
  IF name \in InstanceAttributes THEN second ELSE own

\* the record of the instance at hand, as the second instance will see it
Parked ==
  [ pc |-> pc, raised |-> raised, columns |-> columns,
    source_df |-> source_df, destination_df |-> destination_df,
    trucking_df |-> trucking_df, source_list |-> source_list,
    destination_list |-> destination_list, routes_list |-> routes_list,
    consignment_list |-> consignment_list,
    valid_combinations |-> valid_combinations, X |-> X, Z |-> Z, T |-> T,
    ArrivalDay |-> ArrivalDay, ArrivalDayBinary |-> ArrivalDayBinary,
    model |-> model, status |-> status, sol |-> sol, plan |-> plan,
    printed |-> printed ]

\* The caller turns from one instance to the other between two method calls:
\* the two sessions of the dashboard, each with an optimizer of its own.
switch ==
  /\ active' = 3 - active
  /\ other' = Parked
  /\ pc' = other.pc /\ raised' = other.raised /\ columns' = other.columns
  /\ plan' = other.plan /\ printed' = other.printed
  /\ status' = Attribute("model", status, other.status)
  /\ sol' = Attribute("model", sol, other.sol)
  /\ source_df' = Attribute("source_df", source_df, other.source_df)
  /\ destination_df' =
       Attribute("destination_df", destination_df, other.destination_df)
  /\ trucking_df' = Attribute("trucking_df", trucking_df, other.trucking_df)
  /\ model' = Attribute("model", model, other.model)
  /\ source_list' = Attribute("source_list", source_list, other.source_list)
  /\ destination_list' =
       Attribute("destination_list", destination_list, other.destination_list)
  /\ routes_list' = Attribute("routes_list", routes_list, other.routes_list)
  /\ consignment_list' =
       Attribute("consignment_list", consignment_list, other.consignment_list)
  /\ valid_combinations' =
       Attribute("valid_combinations", valid_combinations,
                 other.valid_combinations)
  /\ X' = Attribute("X", X, other.X)
  /\ Z' = Attribute("Z", Z, other.Z)
  /\ T' = Attribute("T", T, other.T)
  /\ ArrivalDay' = Attribute("ArrivalDay", ArrivalDay, other.ArrivalDay)
  /\ ArrivalDayBinary' =
       Attribute("ArrivalDayBinary", ArrivalDayBinary, other.ArrivalDayBinary)
  /\ UNCHANGED << variant, caller, Y >>

read_default_files == ReadData(DefaultFiles)

\* Two instances of one class, both made by main() and run side by side.
InitTwo == Init /\ caller = "main"

NextTwo ==
  \/ read_default_files
  \/ normalize_shift_times
  \/ initialize_model
  \/ add_constraints
  \/ solve
  \/ switch

SpecTwo == InitTwo /\ [][NextTwo]_vars

\* ------------------------------------------------- normalize on any shift
\* the times of day on the half-hour
TimesOfDay == [ hour : 0 .. 23, minute : {0, 30} ]

\* files whose destination sheet gives D any shift
ShiftFiles ==
  { << ThreeConsignments[1],
       [j \in {"D"} |-> [start |-> a, end |-> b, rate |-> 8]],
       ThreeConsignments[3] >> : a \in TimesOfDay, b \in TimesOfDay }

read_shift_files == ReadData(ShiftFiles)

NextShifts ==
  \/ read_shift_files
  \/ normalize_shift_times

SpecShifts == InitTwo /\ [][NextShifts]_vars

\* ------------------------------------------------------ repeated builds
\* A driver that keeps its optimizer and builds again for another selection
\* before it adds the constraints: initialize_model on an instance that
\* initialize_model has already run on.
initialize_model_again ==
  /\ pc = "initialized" /\ variant = "Streamlit"
  /\ \E selected_sources \in Selections,
        selected_destination \in SelectableDestinations :
       BuildVariables(selected_sources, <<selected_destination>>)
  /\ UNCHANGED << fixed, pc, raised, data, model, outcome >>

InitRebuild == Init /\ variant = "Streamlit"

NextRebuild ==
  \/ read_default_files
  \/ normalize_shift_times
  \/ initialize_model_Streamlit
  \/ initialize_model_again
  \/ add_constraints
  \/ solve_Streamlit

SpecRebuild == InitRebuild /\ [][NextRebuild]_vars

\* ------------------------------------------------------ the draft scripts
\* src/Model_Atfan.py (gurobipy) and src/DHL_Optimization.py (PuLP): one
\* script each, run from top to bottom, with the route variables X[i,j,l],
\* the consignment variables Y[k,l] and no arrival-day indicator.  They read
\* the sheets with the English column names.

\* "unique()[:3]"
DraftSliceLen == 3

\* LpProblem / gp.Model: no constraint yet
DraftEmptyModel ==
  [ capacity |-> {}, release |-> {}, window |-> {}, assign |-> {},
    flow |-> {} ]

InitDraft ==
  /\ variant \in {"Model_Atfan", "DHL_Optimization"}
  /\ caller = "script"
  /\ active = 1
  /\ other = NewInstance
  /\ Y = {}
  /\ printed = <<>>
  /\ pc = "constructed"
  /\ raised = NoException
  /\ columns = "none"
  /\ source_df = <<>> /\ destination_df = <<>> /\ trucking_df = <<>>
  /\ source_list = <<>> /\ destination_list = <<>> /\ routes_list = <<>>
  /\ consignment_list = <<>> /\ valid_combinations = <<>>
  /\ X = <<>> /\ Z = {} /\ T = {} /\ ArrivalDay = {} /\ ArrivalDayBinary = {}
  /\ model = DraftEmptyModel
  /\ status = "LOADED"
  /\ sol = NoSolution
  /\ plan = NoPlan

\* the three pd.read_excel calls
draft_read_excel ==
  /\ pc = "constructed"
  /\ \E ds \in DataSets, c \in {"en", "de"} :
       /\ source_df' = ds[1] /\ destination_df' = ds[2] /\ trucking_df' = ds[3]
       /\ columns' = c
  /\ pc' = "read"
  /\ UNCHANGED << fixed, raised, lists, dicts, model, outcome >>

\* destination_df.apply(normalize_shift_times, axis=1): the function of the
\* script is the normalize of the class, line by line
draft_normalize_shift_times ==
  /\ pc = "read"
  /\ IF columns # "en"
     THEN /\ Raise("KeyError", "normalize_shift_times")
          /\ UNCHANGED destination_df
     ELSE /\ destination_df' =
               [ j \in DOMAIN destination_df |-> normalize(destination_df[j]) ]
          /\ pc' = "normalized" /\ raised' = raised
  /\ UNCHANGED << fixed, columns, source_df, trucking_df, lists, dicts,
                  model, outcome >>

\* [(i, j, l) for (i, j) in routes_list for l in trucks]
DraftXKeysOf(rl) ==
  Concat([ r \in 1 .. Len(rl) |->
    [ n \in 1 .. NumTrucks |-> <<rl[r][1], rl[r][2], n - 1>> ] ])

\* "# Defining variables" to the objective: the lists, the variables, and
\* the objective, which looks up the travel time of every route of
\* routes_list
draft_variables ==
  /\ pc = "normalized"
  /\ LET sl == Take(Unique([ n \in 1 .. Len(trucking_df) |->
                               trucking_df[n].origin ]), DraftSliceLen)
         dl == Take(Unique([ n \in 1 .. Len(trucking_df) |->
                               trucking_df[n].dest ]), DraftSliceLen)
         rl == RoutesOf(sl, dl)
     IN /\ source_list' = sl /\ destination_list' = dl /\ routes_list' = rl
        /\ X' = DraftXKeysOf(rl)
        /\ Y' = (1 .. Len(source_df)) \X Trucks
        /\ Z' = Trucks /\ T' = Trucks /\ ArrivalDay' = Trucks
        /\ IF \E r \in 1 .. Len(rl) : ~HasRoute(rl[r][1], rl[r][2])
           THEN Raise("IndexError", "objective")
           ELSE pc' = "initialized" /\ raised' = raised
  /\ UNCHANGED << variant, caller, active, other, data, consignment_list,
                  valid_combinations, ArrivalDayBinary, model, outcome >>

\* 1. "TruckCapacity": quicksum(Y[k,l] for k in source_df['id']) <= 2 * Z[l]
TruckCapacity ==
  { [ l |-> l, ids |-> 1 .. Len(source_df) ] : l \in Trucks }

\* 2. "ReleaseTime": T[l] >= release_time * Y[k,l]  (in DHL_Optimization.py
\* release_time is the Series of the one row, whose element multiplies Y)
ReleaseTime ==
  { [ k |-> k, l |-> l, release_time |-> release_time(k) ]
    : k \in 1 .. Len(source_df), l \in Trucks }

\* 3. "StartShift" / "EndShift" of one route:
\*    start_shift <= T[l] + travel_time * X[i,j,l] <= end_shift
ShiftWindowOf(r) ==
  { [ route |-> r, l |-> l,
      start_shift |-> destination_df[r[2]].start,
      end_shift |-> destination_df[r[2]].end,
      travel_time |-> travel_time(r[1], r[2]) ] : l \in Trucks }

\* 4. "ConsignmentAssignment": quicksum(Y[k,l] for l in trucks) == 1
ConsignmentAssignment == { [ k |-> k ] : k \in 1 .. Len(source_df) }

\* 5. "FlowConservation_{i}_{l}", one per truck and source:
\*    quicksum(X[i,j,l] for j in destination_list if j not in source_list)
\*      == Z[l]
FlowConservation ==
  { [ i |-> i, l |-> l,
      dests |-> Range(destination_list) \ Range(source_list) ]
    : i \in Range(source_list), l \in Trucks }

\* "# Constraints" to the last model.addConstr; the look-ups of constraint 3
\* raise IndexError for a destination without a row
draft_constraints ==
  /\ pc = "initialized"
  /\ LET rl == routes_list
         bad == { n \in 1 .. Len(rl) : ~HasDestination(rl[n][2]) }
         first == IF bad = {} THEN Len(rl) + 1
                  ELSE CHOOSE n \in bad : \A m \in bad : n <= m
         first3 == [ model EXCEPT
                       !.capacity = TruckCapacity,
                       !.release = ReleaseTime,
                       !.window = UNION { ShiftWindowOf(rl[m])
                                          : m \in 1 .. (first - 1) } ]
     IN IF first <= Len(rl)
        THEN /\ model' = first3
             /\ Raise("IndexError", "constraints")
        ELSE /\ model' = [ first3 EXCEPT !.assign = ConsignmentAssignment,
                                         !.flow = FlowConservation ]
             /\ pc' = "constrained" /\ raised' = raised
  /\ UNCHANGED << fixed, data, lists, dicts, outcome >>

\* the meaning of the five constraints for an assignment s
SatTruckCapacity(c, s) ==
  SumOver([ k \in c.ids |-> s.Y[<<k, c.l>>] ], c.ids) <= Capacity * s.Z[c.l]

SatReleaseTime(c, s) ==
  s.T[c.l] >= Tick(c.release_time, 0) * s.Y[<<c.k, c.l>>]

SatShiftWindow(c, s) ==
  LET v == s.T[c.l] + c.travel_time * s.X[<<c.route[1], c.route[2], c.l>>]
  IN c.start_shift <= v /\ v <= c.end_shift

SatConsignmentAssignment(c, s) ==
  SumOver([ l \in Trucks |-> s.Y[<<c.k, l>>] ], Trucks) = 1

SatFlowConservation(c, s) ==
  SumOver([ j \in c.dests |-> s.X[<<c.i, j, c.l>>] ], c.dests) = s.Z[c.l]

\* The values T[l] is drawn from; T is an integer number of hours in
\* DHL_Optimization.py (cat='Integer') and continuous in Model_Atfan.py.
DraftDepartureTimes ==
  { t \in DepartureTimes :
      variant = "DHL_Optimization" => t % Tick(1, 0) = 0 }

\* The assignments that satisfy the constraints of the draft, found group by
\* group.  ArrivalDay (integer, lb = 0) is in no constraint; its values are
\* drawn from the days of the horizon.
DraftFeasibleSolutions ==
  LET routed == { p \in [Z -> {0, 1}] \X [Range(X) -> {0, 1}] :
                    \A c \in model.flow :
                      SatFlowConservation(c, [ Z |-> p[1], X |-> p[2] ]) }
      loaded == { q \in routed \X [Y -> {0, 1}] :
                    LET s == [ Z |-> q[1][1], Y |-> q[2] ]
                    IN /\ \A c \in model.capacity : SatTruckCapacity(c, s)
                       /\ \A c \in model.assign :
                            SatConsignmentAssignment(c, s) }
      timed == { q \in loaded \X [T -> DraftDepartureTimes] :
                   LET s == [ X |-> q[1][1][2], Y |-> q[1][2], T |-> q[2] ]
                   IN /\ \A c \in model.release : SatReleaseTime(c, s)
                      /\ \A c \in model.window : SatShiftWindow(c, s) }
  IN { [ has |-> TRUE, Z |-> q[1][1][1][1], X |-> q[1][1][1][2],
         Y |-> q[1][1][2], T |-> q[1][2], ArrivalDay |-> q[2] ]
       : q \in timed \X [ArrivalDay -> 0 .. (NumDays - 1)] }

\* the objective, as a cost to minimise and in whole numbers:
\*   maximise sum Z[l] - 0.01 * sum travel_time(i,j) * X[i,j,l]
DraftCost(s) ==
  SumOver([ key \in Range(X) |->
              travel_time(key[1], key[2]) * s.X[key] ], Range(X))
    - 100 * Tick(1, 0) * SumOver(s.Z, Z)

\* model.optimize() / model.solve() and the print of the status: no time
\* limit is set, the solver ends with an optimal assignment or with the
\* finding that there is none
draft_optimize ==
  /\ pc = "constrained"
  /\ LET F == DraftFeasibleSolutions
         costs == { DraftCost(s) : s \in F }
         best == CHOOSE v \in costs : \A w \in costs : v <= w
     IN IF F = {}
        THEN status' = "INFEASIBLE" /\ sol' = NoSolution
        ELSE /\ status' = "OPTIMAL"
             /\ sol' \in { s \in F : DraftCost(s) = best }
  /\ printed' = IF variant = "Model_Atfan"
                THEN <<"Optimization Status:">> ELSE printed
  /\ pc' = "solved"
  /\ UNCHANGED << fixed, raised, data, lists, dicts, model, plan >>

NextDraft ==
  \/ draft_read_excel
  \/ draft_normalize_shift_times
  \/ draft_variables
  \/ draft_constraints
  \/ draft_optimize

SpecDraft == InitDraft /\ [][NextDraft]_vars

\* ================================================================= claims
\* The solver holds an assignment that satisfies every emitted constraint.
Solved == sol.has

\* the keys of self.X the assignment sets to 1
CarriedKeys == { key \in Range(X) : sol.X[key] = 1 }
\* the consignments truck l carries
LoadOf(l) == { key \in CarriedKeys : key[4] = l }
\* the days truck l has selected
SelectedDays(l) ==
  { d \in DaysOf(variant) : sol.ArrivalDayBinary[<<l, d>>] = 1 }

\* C1. Unique assignment: in every assignment that satisfies the emitted
\* constraints, every consignment of consignment_list is carried by exactly
\* one truck: exactly one key (i,j,k,l) of X has the value 1.
C1_UniqueAssignment ==
  Solved =>
    \A n \in 1 .. Len(consignment_list) :
      Cardinality({ key \in CarriedKeys : key[3] = consignment_list[n] }) = 1

\* C1 witness: three consignments are assigned, two of them to one truck.
C1_Witness ==
  /\ Solved /\ Len(consignment_list) = 3
  /\ \E l \in Trucks : Cardinality(LoadOf(l)) = 2
  /\ \E l \in Trucks : Cardinality(LoadOf(l)) = 1

\* C2. Truck capacity: every truck carries at most 2 consignments, and a
\* truck with Z[l] = 0 carries none.
C2_TruckCapacity ==
  Solved =>
    \A l \in Trucks :
      /\ Cardinality(LoadOf(l)) <= 2
      /\ sol.Z[l] = 0 => LoadOf(l) = {}

\* C2 witness: one truck is full while another is not used.
C2_Witness ==
  /\ Solved
  /\ \E l \in Trucks : Cardinality(LoadOf(l)) = 2
  /\ \E l \in Trucks : sol.Z[l] = 0

\* C3 (as claimed). Arrival-day selection: the constraint emitted for truck l
\* admits exactly the values with sum_d ArrivalDayBinary[l,d] * Z[l] = Z[l]:
\* one selected day for a used truck, and an unused truck with no day.
C3_ArrivalDaySelection ==
  \A c \in model.dayAssign :
    \A z \in {0, 1}, row \in [c.days -> {0, 1}] :
      LET s == [ Z |-> [ l \in {c.l} |-> z ],
                 ArrivalDayBinary |-> [ p \in {c.l} \X c.days |-> row[p[2]] ] ]
      IN SatDayAssign(c, s) <=> (SumOver(row, c.days) * z = z)

\* C4 (as claimed). Release-time gating: a truck departs no earlier than the
\* full release timestamp (hour and minute) of every consignment it carries.
C4_ReleaseTimeGating ==
  Solved =>
    \A key \in CarriedKeys :
      sol.T[key[4]] >= Tick(source_df[key[3]].release.hour,
                            source_df[key[3]].release.minute)

\* C5 (as claimed). Shift-window gating (Streamlit): for a carried
\* consignment on route (i,j) and the selected day d of its truck,
\* T[l] + travel_time(i,j) - 24*(d-1) lies within the destination's shift.
C5_ShiftWindowGating ==
  (Solved /\ variant = "Streamlit") =>
    \A key \in CarriedKeys : \A d \in SelectedDays(key[4]) :
      LET hour == sol.T[key[4]] + travel_time(key[1], key[2]) - Day * (d - 1)
      IN /\ destination_df[key[2]].start <= hour
         /\ hour <= destination_df[key[2]].end

\* the quantity that arrives at destination j on trucks that selected day d
ArrivingOn(j, d) ==
  LET keys == { key \in CarriedKeys : key[2] = j /\ d \in SelectedDays(key[4]) }
  IN SumOver([ key \in keys |-> source_df[key[3]].qty ], keys)

\* C6. Per-day sorting capacity (Streamlit): for every destination and every
\* day of the horizon, the quantity arriving on trucks that selected the day
\* is at most sorting_capacity_per_day of the destination.
C6_SortingCapacityPerDay ==
  (Solved /\ variant = "Streamlit") =>
    \A n \in 1 .. Len(destination_list) : \A d \in DaysOf(variant) :
      LET cap == sorting_capacity_per_day(destination_list[n])
      IN cap.den * ArrivingOn(destination_list[n], d) <= cap.num

\* C6 witness: one day's arrivals use the whole capacity of the destination
\* while consignments arrive on another day too.
C6_Witness ==
  /\ Solved /\ variant = "Streamlit"
  /\ \E d \in DaysOf(variant), e \in DaysOf(variant) :
       LET cap == sorting_capacity_per_day("D")
       IN /\ d # e
          /\ cap.den * ArrivingOn("D", d) = cap.num
          /\ ArrivingOn("D", e) > 0

\* C7 (as claimed). Route compatibility: two consignments on one truck share
\* their route.
C7_RouteCompatibility ==
  Solved =>
    \A k1 \in CarriedKeys, k2 \in CarriedKeys :
      k1[4] = k2[4] => (k1[1] = k2[1] /\ k1[2] = k2[2])

\* model building (initialize_model, add_constraints) has ended
BuildEnded ==
  \/ pc \in {"constrained", "solved"}
  \/ pc = "failed" /\ raised.method \in {"add_constraints", "solve"}

\* the consignments of the catalog between the run's sources and
\* destinations whose pair has no row in the route table
MissingRouteConsignments ==
  { k \in 1 .. Len(source_df) :
      /\ source_df[k].origin \in Range(source_list)
      /\ source_df[k].dest \in Range(destination_list)
      /\ source_df[k].origin # source_df[k].dest
      /\ ~HasRoute(source_df[k].origin, source_df[k].dest) }

\* C8 (as claimed). Missing route: when a consignment's pair is absent from
\* the route table, model building ends in a MissingRouteError.
C8_MissingRoute ==
  (BuildEnded /\ MissingRouteConsignments # {}) =>
    (raised.exc = "MissingRouteError" /\ raised.method # "solve")

\* initialize_model has returned or raised
InitializeEnded ==
  \/ pc \in {"initialized", "constrained", "solved"}
  \/ pc = "failed" /\ raised.method \in {"add_constraints", "solve"}

\* C9 (as claimed). Invalid configuration: with an empty consignment list, a
\* destination without a route or an empty truck pool, initialize_model
\* fails with a ConfigurationError and creates no decision variable.
C9_InvalidConfiguration ==
  (/\ InitializeEnded
   /\ \/ consignment_list = <<>>
      \/ \E n \in 1 .. Len(destination_list) :
           \A m \in 1 .. Len(trucking_df) :
             trucking_df[m].dest # destination_list[n]
      \/ NumTrucks <= 0) =>
    /\ raised.exc = "ConfigurationError"
    /\ X = <<>> /\ Z = {} /\ T = {} /\ ArrivalDayBinary = {}

\* the errors of the specification's taxonomy
TypedErrors ==
  { "ConfigurationError", "MissingRouteError", "InfeasibleModelError",
    "NoFeasibleSolutionError" }

\* solve has returned or raised
SolveEnded == pc = "solved" \/ (pc = "failed" /\ raised.method = "solve")

\* C10 (as claimed). Outcome totality of solve: after the statuses optimal,
\* time-limit with an incumbent and sub-optimal, solve ends with a plan and
\* no error; after the statuses infeasible and unbounded it ends with a
\* typed error and no plan.
C10_SolveOutcomeTotality ==
  SolveEnded =>
    /\ (status \in {"OPTIMAL", "SUBOPTIMAL"} \/ (status = "TIME_LIMIT" /\ sol.has))
         => (plan.set /\ raised = NoException)
    /\ status \in {"INFEASIBLE", "INF_OR_UNBD"}
         => (~plan.set /\ raised.exc \in TypedErrors)

\* the keys solve is to report: Z[l] = 1 and X[i,j,k,l] = 1
ReportedKeys == { key \in Range(X) : sol.Z[key[4]] = 1 /\ sol.X[key] = 1 }

\* the plan row of the claim for one key: the tuple, T[l], the day the truck
\* selected, the destination's shift bounds and the route's travel time
ExpectedRow(key) ==
  [ origin |-> key[1], destination |-> key[2], consignment |-> key[3],
    truck |-> key[4], departure |-> sol.T[key[4]],
    arrival_day |-> IF variant = "Streamlit"
                    THEN CHOOSE d \in DaysOf(variant) :
                           SelectedDays(key[4]) \in {{}, {d}}
                    ELSE sol.ArrivalDay[key[4]],
    start_shift |-> destination_df[key[2]].start,
    end_shift |-> destination_df[key[2]].end,
    travel_time |-> travel_time(key[1], key[2]) ]

\* C11 (as claimed). Plan extraction: after solve ends with the status
\* optimal, time-limit or sub-optimal (and a solution to read), the plan holds
\* exactly one row per key with Z[l] = 1 and X[i,j,k,l] = 1, with the fields
\* of that key, and every consignment id is in exactly one row.
C11_PlanExtraction ==
  (SolveEnded /\ status \in PlanStatuses /\ sol.has) =>
    /\ plan.set
    /\ Range(plan.rows) = { ExpectedRow(key) : key \in ReportedKeys }
    /\ Len(plan.rows) = Cardinality(ReportedKeys)
    /\ \A n \in 1 .. Len(consignment_list) :
         Cardinality({ r \in 1 .. Len(plan.rows) :
                         plan.rows[r].consignment = consignment_list[n] }) = 1

\* C12 (as claimed). Timeout with incumbent (Streamlit): when the solver
\* stops at its time limit with an incumbent, solve does not fail, the plan
\* is the incumbent's, and what solve tells its caller differs from what it
\* tells after an optimal end.
C12_TimeoutWithIncumbent ==
  (SolveEnded /\ variant = "Streamlit" /\ status = "TIME_LIMIT" /\ sol.has) =>
    /\ raised = NoException
    /\ plan.set /\ plan.rows = PlanRows(sol)
    /\ printed # SolveMessages(variant, "OPTIMAL")

\* The Streamlit class has built the model of the three-consignment data set
\* for both sources and a pool of two trucks.
ThreeConsignmentsBuilt ==
  /\ variant = "Streamlit"
  /\ pc \in {"constrained", "solved"}
  /\ source_df = ThreeConsignments[1] /\ trucking_df = ThreeConsignments[3]
  /\ DOMAIN destination_df = {"D"}
  /\ destination_df["D"].start = Tick(7, 0)
  /\ destination_df["D"].end = Tick(19, 0)
  /\ Range(source_list) = {"A", "B"} /\ destination_list = <<"D">>
  /\ Cardinality(Z) = 2

\* the keys the assignment s sets to 1, and the trucks that carry them
KeysOf(s) == { key \in Range(X) : s.X[key] = 1 }
CarryingTrucks(s) == { key[4] : key \in KeysOf(s) }

ZeroCapacityRun ==
  /\ DOMAIN destination_df = {"D"} /\ destination_df["D"].rate = 0
  /\ destination_list = <<"D">>
  /\ \E n \in 1 .. Len(consignment_list) :
       source_df[consignment_list[n]].qty > 0

\* C14 (as claimed). Zero sorting capacity: the emitted constraints have no
\* solution, and solve ends with a NoFeasibleSolutionError and no plan.
C14_ZeroSortingCapacity ==
  (SolveEnded /\ ZeroCapacityRun) =>
    /\ FeasibleSolutions = {}
    /\ raised.exc = "NoFeasibleSolutionError"
    /\ ~plan.set

\* what the instance that is not at hand holds in the attributes of the claim
SecondInstance ==
  [ model |-> Attribute("model", model, other.model),
    status |-> Attribute("model", status, other.status),
    sol |-> Attribute("model", sol, other.sol),
    X |-> Attribute("X", X, other.X),
    Z |-> Attribute("Z", Z, other.Z),
    T |-> Attribute("T", T, other.T),
    ArrivalDayBinary |->
      Attribute("ArrivalDayBinary", ArrivalDayBinary, other.ArrivalDayBinary),
    consignment_list |->
      Attribute("consignment_list", consignment_list, other.consignment_list),
    valid_combinations |->
      Attribute("valid_combinations", valid_combinations,
                other.valid_combinations) ]

ClaimedKeys ==
  { <<t[1][1], t[1][2], t[2], t[3]>> :
      t \in { u \in Range(routes_list) \X (1 .. Len(source_df)) \X Trucks :
                /\ source_df[u[2]].origin = u[1][1]
                /\ source_df[u[2]].dest = u[1][2] } }

\* C16. Variable set: after initialize_model on a fresh instance, the keys
\* of X are exactly the (i,j,k,l) with (i,j) in routes_list, k a consignment
\* recorded from i to j and l in the pool, each once; Z and T have one entry
\* per truck of the pool.
C16_VariableSet ==
  pc = "initialized" =>
    /\ Range(X) = ClaimedKeys
    /\ Len(X) = Cardinality(ClaimedKeys)
    /\ Z = Trucks /\ T = Trucks

\* C16 witness: initialize_model has made variables for consignments on two
\* routes, for every truck of the pool.
C16_Witness ==
  /\ pc = "initialized" /\ Len(routes_list) >= 2
  /\ \E a \in Range(X), b \in Range(X) : a[1] # b[1]
  /\ \A a \in Range(X), l \in Trucks : <<a[1], a[2], a[3], l>> \in Range(X)

\* the input tables hold a consignment whose origin and destination are
\* distinct facilities among the sources and destinations of the run
HasRoutedConsignment ==
  \E k \in 1 .. Len(source_df) :
    /\ source_df[k].origin \in Range(source_list)
    /\ source_df[k].dest \in Range(destination_list)
    /\ source_df[k].origin # source_df[k].dest

\* the four lists of the claim
CatalogLists ==
  << source_list, destination_list, routes_list, consignment_list >>

CombinationsRecorded ==
  \A n \in 1 .. Len(valid_combinations) :
    /\ HasDestination(valid_combinations[n][2])
    /\ HasRoute(valid_combinations[n][1], valid_combinations[n][2])

\* C18 (as claimed). add_constraints completes: on an instance that
\* normalize_shift_times and initialize_model have run on and whose valid
\* combinations all have their destination and route records,
\* add_constraints ends without raising.
C18_AddConstraintsCompletes ==
  (BuildEnded /\ CombinationsRecorded) => raised.method # "add_constraints"

\* C19. Construction errors abort before solving: once initialize_model or
\* add_constraints has raised, the run is over and solve has not been and is
\* never called on the model built so far: the solver has no status, there
\* is no solution, no plan and no output of solve.
C19_ConstructionErrorsAbort ==
  raised.method \in {"initialize_model", "add_constraints"} =>
    /\ pc = "failed"
    /\ status = "LOADED" /\ sol = NoSolution /\ plan = NoPlan
    /\ printed = <<>>

\* C19 witness: add_constraints has raised on a missing record after it had
\* emitted the capacity and release constraints.
C19_Witness ==
  /\ pc = "failed" /\ raised.method = "add_constraints"
  /\ model.capacity # {} /\ model.release # {} /\ model.assign = {}

\* C20. Shift normalization: for a shift given by two times of day,
\* normalize_shift_times leaves the start as its hour of day in [0,24) and
\* gives an end in [0,48), not before the start, which is the end's hour of
\* day plus 24 exactly when that is earlier than the start; end minus start
\* is the length of the shift.
C20_ShiftNormalization ==
  [][ (pc = "read" /\ pc' = "normalized") =>
        \A j \in DOMAIN destination_df :
          LET start_of_day == Tick(destination_df[j].start.hour,
                                   destination_df[j].start.minute)
              end_of_day == Tick(destination_df[j].end.hour,
                                 destination_df[j].end.minute)
              start_hour == destination_df'[j].start
              end_hour == destination_df'[j].end
          IN /\ start_hour = start_of_day
             /\ 0 <= start_hour /\ start_hour < Day
             /\ 0 <= end_hour /\ end_hour < 2 * Day
             /\ end_hour >= start_hour
             /\ (end_hour = end_of_day + Day) <=> (end_of_day < start_of_day)
             /\ end_hour \in {end_of_day, end_of_day + Day}
             /\ end_hour - start_hour = (end_of_day - start_of_day) % Day ]_vars

\* C20 witness: a shift from 22:30 to 06:00 has been normalised to the hours
\* 22.5 and 30.
C20_Witness ==
  /\ pc = "normalized"
  /\ destination_df["D"].start = Tick(22, 30)
  /\ destination_df["D"].end = Tick(30, 0)

\* the horizon day (1, 2, ...) on which the hour `hour`, counted from the
\* start of day 1, lies
HorizonDay(hour) == (hour \div Day) + 1

\* C21 (as claimed). Arrival day tracks arrival time (Streamlit): for every
\* truck that carries a consignment on route (i,j), the day d the truck has
\* selected (ArrivalDayBinary[l,d] = 1) is the horizon day on which
\* T[l] + travel_time(i,j) lies.
C21_ArrivalDayTracksArrivalTime ==
  (Solved /\ variant = "Streamlit") =>
    \A key \in CarriedKeys : \A d \in SelectedDays(key[4]) :
      d = HorizonDay(sol.T[key[4]] + travel_time(key[1], key[2]))

\* C22 (as claimed). Used implies loaded (Streamlit): in every assignment
\* that satisfies the emitted constraints, Z[l] = 1 if and only if truck l
\* carries at least one consignment (the sum of its X is at least 1).
C22_UsedImpliesLoaded ==
  (Solved /\ variant = "Streamlit") =>
    \A l \in Trucks : (sol.Z[l] = 1) <=> (LoadOf(l) # {})

\* the solver's assignment with the departure of truck l moved to t
Departing(l, t) == [ sol EXCEPT !.T = [ sol.T EXCEPT ![l] = t ] ]

\* the emitted constraints of the set cs that name truck l, and those of
\* them whose combination the truck carries
ConstrsOfTruck(cs, l) == { c \in cs : c.l = l }
CarriedConstrs(cs, l) ==
  { c \in ConstrsOfTruck(cs, l) : sol.X[XKey(c.key, l)] = 1 }

\* C23 (as claimed). The window constraint only binds carried combinations:
\* for every truck l, a departure time T[l] >= 0 that satisfies the release
\* and window constraints of the combinations the truck carries satisfies
\* every window constraint emitted for the truck, those of the combinations
\* with X[i,j,k,l] = 0 included.
C23_WindowBindsCarriedOnly ==
  Solved =>
    \A l \in Trucks, t \in DepartureTimes :
      (/\ \A c \in CarriedConstrs(model.release, l) :
            SatRelease(c, Departing(l, t))
       /\ \A c \in CarriedConstrs(model.window, l) :
            SatWindow(c, Departing(l, t)))
      => \A c \in ConstrsOfTruck(model.window, l) :
           SatWindow(c, Departing(l, t))

\* the values of ArrivalDay (integer, 0 to the last day) and of the day
\* indicators that satisfy every emitted big-M constraint
BigMAssignments ==
  { e \in [ ArrivalDayBinary : [ArrivalDayBinary -> {0, 1}],
            ArrivalDay : [ArrivalDay -> 0 .. (NumDays - 1)] ] :
      \A c \in model.bigM : SatBigM(c, e) }

\* the values of the day indicators among them
DayIndicators == { e.ArrivalDayBinary : e \in BigMAssignments }

\* the day-d constraint of the claim: every quantity weighted by the day
\* indicator of its own truck, which is the form the Streamlit class emits
WeightedPerTruck(c) == [ c EXCEPT !.form = "Streamlit" ]

\* C24 (as claimed). Per-day sorting capacity (Optimization_gurobi): the
\* day-d sorting constraint of destination j weights each carried quantity
\* by ArrivalDayBinary[l,d] of the truck l that carries it: it admits exactly
\* the loads and day indicators for which the quantity arriving at j on the
\* trucks with indicator d set is at most sorting_capacity_per_day(j).
C24_GurobiSortingPerDay ==
  \A c \in model.sorting :
    c.form = "Gurobi" =>
      \A x \in [Range(X) -> {0, 1}], b \in DayIndicators :
        LET s == [ X |-> x, ArrivalDayBinary |-> b ]
        IN SatSorting(c, s) <=> SatSorting(WeightedPerTruck(c), s)

\* C25 (as claimed). Big-M day indicator (Optimization_gurobi): the two
\* big-M constraints force ArrivalDayBinary[l,d] = 1 exactly for
\* d = ArrivalDay[l] and 0 for every other day, so every truck has exactly
\* one day indicator set.
C25_BigMDayIndicator ==
  model.bigM # {} =>
    \A e \in BigMAssignments : \A l \in ArrivalDay :
      /\ \A d \in DaysOf(variant) :
           (e.ArrivalDayBinary[<<l, d>>] = 1) <=> (d = e.ArrivalDay[l])
      /\ Cardinality({ d \in DaysOf(variant) :
                         e.ArrivalDayBinary[<<l, d>>] = 1 }) = 1

\* C26 (as claimed). No stale variables across repeated builds (Streamlit):
\* after any sequence of initialize_model calls on one instance the keys of X
\* are the valid combinations of the last call, each with every truck of the
\* pool, and the plan a later solve hands back has rows only for consignments
\* and routes of the last selection.
C26_NoStaleVariables ==
  (variant = "Streamlit" /\ InitializeEnded) =>
    /\ Range(X) = Range(XKeysOf(valid_combinations))
    /\ plan.set =>
         \A r \in 1 .. Len(plan.rows) :
           /\ plan.rows[r].consignment \in Range(consignment_list)
           /\ <<plan.rows[r].origin, plan.rows[r].destination>>
                \in Range(routes_list)

\* the routes truck l travels in the assignment s of a draft script
RoutesOfTruck(s, l) ==
  { r \in Range(routes_list) : s.X[<<r[1], r[2], l>>] = 1 }

\* C27 (as claimed). Flow conservation in the draft scripts: in every
\* assignment that satisfies the emitted constraints a used truck (Z[l] = 1)
\* travels exactly one route (i,j), and an unused truck travels none.
C27_FlowConservation ==
  (variant \in {"Model_Atfan", "DHL_Optimization"} /\ pc = "constrained") =>
    \A s \in DraftFeasibleSolutions : \A l \in Trucks :
      /\ s.Z[l] = 1 => Cardinality(RoutesOfTruck(s, l)) = 1
      /\ s.Z[l] = 0 => RoutesOfTruck(s, l) = {}
=============================================================================
